---- MODULE Spec2Model ----
(***************************************************************************)
(* Model of the History and Data Analysis Collaboration System             *)
(* (all_agents_tutorials/multi_agent_collaboration_system.ipynb):          *)
(* Agent.process, the five step functions and                              *)
(* HistoryDataCollaborationSystem.solve.                                   *)
(*                                                                         *)
(* A Python string is a sequence of tokens (a token stands for a literal   *)
(* piece of a template or for a piece of text supplied from outside), so   *)
(* f-string formatting is concatenation and "contains" is a subsequence    *)
(* test.                                                                   *)
(***************************************************************************)
EXTENDS Integers, Sequences, FiniteSets, TLC

(* ---------------------------- bounds ----------------------------------- *)

\* solve calls made in succession on the one orchestrator instance
MaxRuns == 2
\* longest transcript given to a single Agent.process call
MaxTurns == 2
\* largest reading of the clock (time.time(), in ticks)
MaxTime == 2

(* ---------------------------- inputs ----------------------------------- *)

\* task arguments: the empty string and a question
Tasks == {<< >>, <<"Q">>}
\* timeout arguments: zero and a positive one
Timeouts == {0, 1}
\* texts the completion service may return (response.content): the empty
\* string and a text
Texts == {<< >>, <<"R1">>}
\* messages of the exceptions the completion service may raise
Failures == {<<"E1">>}
\* what one llm.invoke can do: return a text or raise an Exception
Outcomes == {[ok |-> TRUE, text |-> t] : t \in Texts}
              \cup {[ok |-> FALSE, text |-> m] : m \in Failures}

(* ---------------------------- strings ---------------------------------- *)

\* sub in s (Python's substring test)
Contains(s, sub) ==
    \E i \in 0..(Len(s) - Len(sub)) : SubSeq(s, i + 1, i + Len(sub)) = sub

\* sep.join(parts)
RECURSIVE Join(_, _)
Join(parts, sep) ==
    IF parts = << >> THEN << >>
    ELSE IF Len(parts) = 1 THEN parts[1]
    ELSE parts[1] \o sep \o Join(Tail(parts), sep)

(* ---------------------------- agents ----------------------------------- *)

\* Agent("Clio", "History Research Specialist", [...])
NewHistoryAgent ==
    [name   |-> <<"Clio">>,
     role   |-> <<"History Research Specialist">>,
     skills |-> << <<"deep knowledge of historical events">>,
                   <<"understanding of historical contexts">>,
                   <<"identifying historical trends">> >>]

\* Agent("Data", "Data Analysis Expert", [...])
NewDataAgent ==
    [name   |-> <<"Data">>,
     role   |-> <<"Data Analysis Expert">>,
     skills |-> << <<"interpreting numerical data">>,
                   <<"statistical analysis">>,
                   <<"data visualization description">> >>]

\* the content of the SystemMessage Agent.process builds
SystemContent(agent) ==
    <<"You are ">> \o agent.name \o <<", a ">> \o agent.role
        \o <<". Your skills include: ">> \o Join(agent.skills, <<", ">>)
        \o <<". Respond to the task based on your role and skills.">>

\* a variant of Replay: only the agent's own turns are replayed
RECURSIVE ReplayAgentTurnsOnly(_)
ReplayAgentTurnsOnly(ctx) ==
    IF ctx = << >> THEN << >>
    ELSE LET msg == Head(ctx)
             one == IF msg.role = "ai"
                       THEN << [role |-> "ai", content |-> msg.content] >>
                    ELSE << >>
         IN  one \o ReplayAgentTurnsOnly(Tail(ctx))

\* the message a transcript turn is replayed as; turns of another role are skipped
RECURSIVE Replay(_)
Replay(ctx) ==
    IF ctx = << >> THEN << >>
    ELSE LET msg == Head(ctx)
             one == IF msg.role = "human"
                       THEN << [role |-> "human", content |-> msg.content] >>
                    ELSE IF msg.role = "ai"
                       THEN << [role |-> "ai", content |-> msg.content] >>
                    ELSE << >>
         IN  one \o Replay(Tail(ctx))

\* the message list Agent.process sends to llm.invoke (context None is << >>)
ProcessMessages(agent, prompt, ctx) ==
    << [role |-> "system", content |-> SystemContent(agent)] >>
        \o Replay(ctx)
        \o << [role |-> "human", content |-> prompt] >>

\* a variant of ProcessLeaves: process records the task in the list it was given
ProcessRecordsTask(ctx, prompt) ==
    Append(ctx, [role |-> "human", content |-> prompt])

\* the list given to Agent.process as context, after the call was built:
\* process reads it and appends only to its own messages list
ProcessLeaves(ctx, prompt) == ctx

\* the agent after Agent.process: process assigns no attribute of self
ProcessSelf(agent) == agent

\* return response.content
ProcessResult(content) == content

(* ---------------------------- steps ------------------------------------ *)

\* context[-1]
Last(ctx) == ctx[Len(ctx)]

\* a variant of StepTask: steps 2..4 quote the first turn of the transcript
StepTaskFirstTurn(func, task, ctx) ==
    CASE func = "research_historical_context" ->
            <<"Provide relevant historical context and information for the following task: ">>
                \o task
      [] func = "identify_data_needs" ->
            <<"Based on the historical context, what specific data or statistical information would be helpful to answer the original question? Historical context: ">>
                \o ctx[1].content
      [] func = "provide_historical_data" ->
            <<"Based on the data needs identified, provide relevant historical data or statistics. Data needs: ">>
                \o ctx[1].content
      [] func = "analyze_data" ->
            <<"Analyze the historical data provided and describe any trends or insights relevant to the original task. Historical data: ">>
                \o ctx[1].content
      [] func = "synthesize_final_answer" ->
            <<"Based on all the historical context, data, and analysis, provide a comprehensive answer to the original task.">>

\* the prompt each step function derives (its *_task f-string)
StepTask(func, task, ctx) ==
    CASE func = "research_historical_context" ->
            <<"Provide relevant historical context and information for the following task: ">>
                \o task
      [] func = "identify_data_needs" ->
            <<"Based on the historical context, what specific data or statistical information would be helpful to answer the original question? Historical context: ">>
                \o Last(ctx).content
      [] func = "provide_historical_data" ->
            <<"Based on the data needs identified, provide relevant historical data or statistics. Data needs: ">>
                \o Last(ctx).content
      [] func = "analyze_data" ->
            <<"Analyze the historical data provided and describe any trends or insights relevant to the original task. Historical data: ">>
                \o Last(ctx).content
      [] func = "synthesize_final_answer" ->
            <<"Based on all the historical context, data, and analysis, provide a comprehensive answer to the original task.">>

\* the steps that read context[-1] before calling the agent
ReadsLast(func) ==
    func \in {"identify_data_needs", "provide_historical_data", "analyze_data"}

\* a variant of StepContext: later steps pass only the most recent turn
StepContextLastOnly(func, ctx) ==
    IF func = "research_historical_context" THEN << >> ELSE << Last(ctx) >>

\* the context argument each step gives Agent.process (none in the first step)
StepContext(func, ctx) ==
    IF func = "research_historical_context" THEN << >> ELSE ctx

\* a variant of Speaker: every turn is attributed to the history agent
SpeakerAlwaysHistory(func) ==
    IF func = "synthesize_final_answer" THEN << >> ELSE <<"History Agent: ">>

\* the speaker prefix a step puts before the agent's text in the turn it appends
Speaker(func) ==
    CASE func \in {"research_historical_context", "provide_historical_data"} ->
            <<"History Agent: ">>
      [] func \in {"identify_data_needs", "analyze_data"} ->
            <<"Data Agent: ">>
      [] OTHER -> << >>

\* a variant of AppendTurn: the new turn is put in front of the list
AppendTurnInFront(func, text, ctx) ==
    << [role |-> "ai", content |-> Speaker(func) \o text] >> \o ctx

\* context.append({"role": "ai", "content": f"<speaker>: {result}"})
AppendTurn(func, text, ctx) ==
    Append(ctx, [role |-> "ai", content |-> Speaker(func) \o text])

\* a variant of StepReturn: the synthesis returns the last turn, not its own text
StepReturnLastTurn(func, text, ctx) ==
    IF func = "synthesize_final_answer"
       THEN [isstr |-> TRUE,
             str |-> IF ctx = << >> THEN text ELSE Last(ctx).content,
             list |-> ctx]
       ELSE [isstr |-> FALSE, str |-> << >>, list |-> AppendTurn(func, text, ctx)]

\* a variant of StepReturn: the synthesis appends a turn like the other steps
\* before it returns its text
StepReturnAppendsFinal(func, text, ctx) ==
    IF func = "synthesize_final_answer"
       THEN [isstr |-> TRUE, str |-> text,
             list |-> Append(ctx, [role |-> "ai",
                                   content |-> <<"History Agent: ">> \o text])]
       ELSE [isstr |-> FALSE, str |-> << >>, list |-> AppendTurn(func, text, ctx)]

\* a variant of StepReturn: the synthesis appends a turn and returns the list,
\* so that no step is terminal
StepReturnNeverTerminal(func, text, ctx) ==
    [isstr |-> FALSE, str |-> << >>,
     list |-> Append(ctx, [role |-> "ai", content |-> text])]

\* what a step function returns once process has returned text: the context
\* with its turn appended (a list), or for the synthesis the text itself (a str)
StepReturn(func, text, ctx) ==
    IF func = "synthesize_final_answer"
       THEN [isstr |-> TRUE, str |-> text, list |-> ctx]
       ELSE [isstr |-> FALSE, str |-> << >>, list |-> AppendTurn(func, text, ctx)]

\* a variant of the steps list: every step bound to the history agent
stepsHistoryOnly ==
    << [func |-> "research_historical_context", agent |-> "history_agent"],
       [func |-> "identify_data_needs",         agent |-> "history_agent"],
       [func |-> "provide_historical_data",     agent |-> "history_agent"],
       [func |-> "analyze_data",                agent |-> "history_agent"],
       [func |-> "synthesize_final_answer",     agent |-> "history_agent"] >>

\* the steps list of solve
steps ==
    << [func |-> "research_historical_context", agent |-> "history_agent"],
       [func |-> "identify_data_needs",         agent |-> "data_agent"],
       [func |-> "provide_historical_data",     agent |-> "history_agent"],
       [func |-> "analyze_data",                agent |-> "data_agent"],
       [func |-> "synthesize_final_answer",     agent |-> "history_agent"] >>

NumSteps == Len(steps)

(* ---------------------------- solve ------------------------------------ *)

\* the result of the timeout return
TimeoutMessage == <<"Operation timed out. The process took too long to complete.">>

\* the prefix of the result of the except clause
ErrorPrefix == <<"Error during collaboration:", " ">>

\* str(IndexError) of context[-1] on an empty list
IndexErrorMessage == <<"list index out of range">>

\* a variant of TimedOut: the test is late by one tick
TimedOutLate(t, start, limit) == t - start > limit + 1

\* a variant of TimedOut: the limit itself already counts as timed out
TimedOutInclusive(t, start, limit) == t - start >= limit

\* time.time() - start_time > timeout
TimedOut(t, start, limit) == t - start > limit

\* a variant of CheckPoints: the timeout also cuts a call in flight
CheckPointsInFlight == {"loop", "call"}

\* a variant of CheckPoints: the timeout is tested while a call is in flight
CheckPointsCallOnly == {"call"}

\* where in solve the timeout is tested: at the top of the loop body only
CheckPoints == {"loop"}

\* a variant of FreshContext: solve goes on with the list of the last run
KeptContext(old) == old

\* context = [] at the start of solve
FreshContext(old) == << >>

\* a variant of ExceptClause: the exception is raised again
ExceptClauseReraise(msg, ctx) == [exit |-> "raised", result |-> msg]

\* a variant of ExceptClause: the message alone is returned
ExceptClauseBare(msg, ctx) == [exit |-> "error", result |-> msg]

\* a variant of ExceptClause: the last turn is returned when there is one
ExceptClauseSalvage(msg, ctx) ==
    [exit |-> "error",
     result |-> IF ctx = << >> THEN <<"Error during collaboration:", " ">> \o msg
                ELSE <<"Error during collaboration:", " ">> \o msg
                         \o Last(ctx).content]

\* except Exception as e: return f"Error during collaboration: {str(e)}"
\* (msg is str(e); ctx is the context in scope, which the clause does not use)
ExceptClause(msg, ctx) == [exit |-> "error", result |-> ErrorPrefix \o msg]

\* a variant of NextStep: the loop stays on the same pair
NextStepSame(i) == i

\* the for loop moves on to the next (step_func, agent) pair
NextStep(i) == i + 1

VARIABLES
    history_agent,  \* self.history_agent
    data_agent,     \* self.data_agent
    llm,            \* the completion service: the answers it has given, by request size
    now,            \* time.time()
    pc,             \* "idle" | "loop" (before a step's timeout check) | "call" | "done"
    task,           \* solve's task
    timeout,        \* solve's timeout
    start_time,     \* solve's start_time
    context,        \* solve's context
    step,           \* position of the for loop in steps
    messages,       \* the request of the llm.invoke in flight
    result,         \* the string solve returned
    exit,           \* the way solve ended
    runs,           \* solve calls started
    calls,          \* history: the llm.invoke calls of this run, in order
    responses,      \* history: the texts llm.invoke returned in this run, in order
    prev            \* history: the previous run, << >> when there is none

vars == <<history_agent, data_agent, llm, now, pc, task, timeout, start_time,
          context, step, messages, result, exit, runs, calls, responses, prev>>

Agent(name) == IF name = "history_agent" THEN history_agent ELSE data_agent

Elapsed == now - start_time

\* the run that just ended, as the next run remembers it
Summary ==
    [task |-> task, timeout |-> timeout, result |-> result, exit |-> exit,
     step |-> step, context |-> context]

Init ==
    /\ history_agent = NewHistoryAgent
    /\ data_agent = NewDataAgent
    /\ llm = {}
    /\ now = 0
    /\ pc = "idle"
    /\ task = << >>
    /\ timeout = 0
    /\ start_time = 0
    /\ context = << >>
    /\ step = 1
    /\ messages = << >>
    /\ result = << >>
    /\ exit = "none"
    /\ runs = 0
    /\ calls = << >>
    /\ responses = << >>
    /\ prev = << >>

\* solve(task, timeout) up to the for loop
Solve(t, limit) ==
    /\ pc \in {"idle", "done"}
    /\ runs < MaxRuns
    /\ runs' = runs + 1
    /\ prev' = IF pc = "done" THEN <<Summary>> ELSE << >>
    /\ task' = t
    /\ timeout' = limit
    /\ start_time' = now
    /\ context' = FreshContext(context)
    /\ step' = 1
    /\ pc' = "loop"
    /\ messages' = << >>
    /\ result' = << >>
    /\ exit' = "none"
    /\ calls' = << >>
    /\ responses' = << >>
    /\ UNCHANGED <<history_agent, data_agent, llm, now>>

\* the clock advances while solve runs
Tick ==
    /\ pc \in {"loop", "call"}
    /\ now < MaxTime
    /\ now' = now + 1
    /\ UNCHANGED <<history_agent, data_agent, llm, pc, task, timeout, start_time,
                   context, step, messages, result, exit, runs, calls, responses, prev>>

\* return of solve with a string
Return(how, text) ==
    /\ pc' = "done"
    /\ exit' = how
    /\ result' = text

\* if time.time() - start_time > timeout: return "Operation timed out. ..."
TimeoutReturn ==
    /\ pc \in CheckPoints
    /\ TimedOut(now, start_time, timeout)
    /\ Return("timeout", TimeoutMessage)
    /\ UNCHANGED <<history_agent, data_agent, llm, now, task, timeout, start_time,
                   context, step, messages, runs, calls, responses, prev>>

\* the timeout test passes and the step function runs up to llm.invoke
StartStep ==
    /\ pc = "loop"
    /\ ~TimedOut(now, start_time, timeout)
    /\ LET func == steps[step].func
           agent == Agent(steps[step].agent)
       IN  IF ReadsLast(func) /\ context = << >>
              THEN \* context[-1] raises IndexError inside the try
                   /\ Return(ExceptClause(IndexErrorMessage, context).exit,
                             ExceptClause(IndexErrorMessage, context).result)
                   /\ UNCHANGED <<messages, calls, context, history_agent, data_agent>>
              ELSE /\ messages' = ProcessMessages(agent, StepTask(func, task, context),
                                                  StepContext(func, context))
                   /\ calls' = Append(calls, [step |-> step, agent |-> steps[step].agent])
                   \* the first step gives process no list; the others give it
                   \* solve's own list
                   /\ context' = IF func = "research_historical_context"
                                    THEN context
                                    ELSE ProcessLeaves(context,
                                                       StepTask(func, task, context))
                   /\ history_agent' = IF steps[step].agent = "history_agent"
                                          THEN ProcessSelf(history_agent)
                                          ELSE history_agent
                   /\ data_agent' = IF steps[step].agent = "data_agent"
                                       THEN ProcessSelf(data_agent)
                                       ELSE data_agent
                   /\ pc' = "call"
                   /\ UNCHANGED <<result, exit>>
    /\ UNCHANGED <<llm, now, task, timeout, start_time, step, runs, responses, prev>>

\* The completion service is a deterministic stub that answers by the position
\* of the call in the conversation, whatever the texts are: its outcome is a
\* function of the number of messages of the request, fixed the first time a
\* request of that size is made (the first run takes every outcome there is).
Key(request) == Len(request)

Allowed(o) == \A e \in llm : e.key = Key(messages) => e.outcome = o

Answered(o) == llm \cup {[key |-> Key(messages), outcome |-> o]}

\* llm.invoke returns text: the step appends its turn or returns the answer,
\* and solve goes on to the next step, returns the answer, or leaves the loop
CallReturns(o) ==
    /\ pc = "call"
    /\ o.ok
    /\ Allowed(o)
    /\ llm' = Answered(o)
    /\ responses' = Append(responses, o.text)
    /\ LET r == StepReturn(steps[step].func, ProcessResult(o.text), context)
       IN  /\ context' = r.list  \* the step appends to solve's list in place
           /\ IF r.isstr
                 THEN \* isinstance(result, str): this is the final answer
                      /\ Return("final", r.str)
                      /\ UNCHANGED step
                 ELSE IF NextStep(step) <= NumSteps
                 THEN /\ step' = NextStep(step)
                      /\ pc' = "loop"
                      /\ UNCHANGED <<result, exit>>
                 ELSE \* the loop is exhausted: return context[-1]["content"],
                      \* outside the try
                      /\ IF r.list = << >>
                            THEN Return("raised", IndexErrorMessage)
                            ELSE Return("fallback", Last(r.list).content)
                      /\ UNCHANGED step
    /\ UNCHANGED <<history_agent, data_agent, now, task, timeout, start_time,
                   messages, runs, calls, prev>>

\* llm.invoke raises: the exception passes through the step function to solve's
\* except clause
CallFails(o) ==
    /\ pc = "call"
    /\ ~o.ok
    /\ Allowed(o)
    /\ llm' = Answered(o)
    /\ Return(ExceptClause(o.text, context).exit,
              ExceptClause(o.text, context).result)
    /\ UNCHANGED <<history_agent, data_agent, now, task, timeout, start_time,
                   context, step, messages, runs, calls, responses, prev>>

Next ==
    \/ \E t \in Tasks, limit \in Timeouts : Solve(t, limit)
    \/ Tick
    \/ TimeoutReturn
    \/ StartStep
    \/ \E o \in Outcomes : CallReturns(o)
    \/ \E o \in Outcomes : CallFails(o)

Spec == Init /\ [][Next]_vars

(* ---------------------------- properties ------------------------------- *)

\* every call made in this run has returned a text
AllCallsSucceeded == Len(responses) = Len(calls)

\* the outcome of the call the service answered last in this run
LastOutcome == (CHOOSE e \in llm : e.key = Key(messages)).outcome

\* C1 as stated: for a non-empty task and a positive timeout, when every
\* completion-service call succeeds and no timeout check fires, solve returns a
\* non-empty string, the text of the fifth (synthesis) call.
C1_Original ==
    (pc = "done" /\ task # << >> /\ timeout > 0 /\ AllCallsSucceeded
        /\ exit # "timeout")
    => (Len(calls) = 5 /\ result = responses[5] /\ result # << >>)

\* C1 as amended: for a non-empty task and a positive timeout, when every
\* completion-service call succeeds and no timeout check fires, five calls were
\* made and solve returns exactly the text of the fifth call, which is empty
\* when that text is empty.
C1_ReturnsFifthText ==
    (pc = "done" /\ task # << >> /\ timeout > 0 /\ AllCallsSucceeded
        /\ exit # "timeout")
    => (Len(calls) = 5 /\ exit = "final" /\ result = responses[5])

C1_Witness ==
    /\ pc = "done" /\ exit = "final" /\ task # << >> /\ timeout > 0
    /\ responses[4] = << >> /\ result = <<"R1">>

\* C2: whenever solve has ended it has returned a string (an exception never
\* leaves it); a run in which a call failed, at whichever step 1..5, has ended
\* with the string of the except clause, and ended at once (solve is never
\* found running after a failed call).
C2_AlwaysReturnsString ==
    /\ pc = "done" => (exit \in {"timeout", "error", "final", "fallback"}
                        /\ result \in Seq(STRING))
    /\ (pc = "done" /\ ~AllCallsSucceeded) => (exit = "error" /\ step \in 1..5)
    /\ (pc # "call") => (AllCallsSucceeded \/ pc = "done")

C2_Witness ==
    pc = "done" /\ exit = "error" /\ step = 5 /\ ~AllCallsSucceeded

\* C3 as stated: when the third call of the run fails, solve returns a string
\* containing "Error during collaboration:", the third turn is never appended,
\* no call is made for steps 4 and 5, and two calls occur in total.
C3_Original ==
    (pc = "done" /\ step = 3 /\ ~AllCallsSucceeded)
    => (/\ Contains(result, <<"Error during collaboration:">>)
        /\ Len(context) = 2
        /\ \A i \in 1..Len(calls) : calls[i].step < 4
        /\ Len(calls) = 2)

\* C3 as amended: when the third call of the run fails, solve returns a string
\* containing "Error during collaboration:", the third turn is never appended,
\* no call is made for steps 4 and 5, and three calls occur in total: the two
\* that returned and the failing third.
C3_FailureShortCircuit ==
    (pc = "done" /\ step = 3 /\ ~AllCallsSucceeded)
    => (/\ Contains(result, <<"Error during collaboration:">>)
        /\ Len(context) = 2
        /\ \A i \in 1..Len(calls) : calls[i].step < 4
        /\ Len(calls) = 3
        /\ Len(responses) = 2)

C3_Witness ==
    pc = "done" /\ exit = "error" /\ step = 3 /\ Len(calls) = 3 /\ Len(context) = 2

\* C4: for every k in 1..5, when elapsed time exceeds the timeout at the check
\* before step k, solve returns exactly the timeout string without a call for
\* step k, and a run that ended so has made only the calls of steps 1..k-1.
C4_TimeoutShortCircuit ==
    /\ [][(pc = "loop" /\ now - start_time > timeout /\ pc' # "loop")
            => (/\ pc' = "done"
                /\ exit' = "timeout"
                /\ result' = <<"Operation timed out. The process took too long to complete.">>
                /\ calls' = calls
                /\ step' = step)]_vars
    /\ [](pc = "done" /\ exit = "timeout"
            => (/\ step \in 1..5
                /\ Len(calls) = step - 1
                /\ \A i \in 1..Len(calls) : calls[i].step < step))

C4_Witness ==
    pc = "done" /\ exit = "timeout" /\ step = 3 /\ Len(calls) = 2

\* the turn the transcript must hold at position i, given the texts the
\* service returned in this run
ExpectedTurn(i) ==
    [role |-> "ai",
     content |-> (IF i \in {1, 3} THEN <<"History Agent: ">> ELSE <<"Data Agent: ">>)
                     \o responses[i]]

\* C5: with R1..R5 the texts the service returns on calls 1..5, the transcript
\* after step k (k in 1..4) is ai:"History Agent: R1", ai:"Data Agent: R2",
\* ai:"History Agent: R3", ai:"Data Agent: R4" up to its k-th turn, solve
\* returns exactly R5, and a second run with the same task under the same stub
\* ends with the same turns and the same result.
C5_DeterministicTranscript ==
    /\ pc \in {"loop", "call"} => Len(context) = step - 1
    /\ \A i \in 1..Len(context) : i <= Len(responses) /\ context[i] = ExpectedTurn(i)
    /\ (pc = "done" /\ AllCallsSucceeded /\ exit # "timeout")
          => (Len(context) = 4 /\ Len(responses) = 5 /\ result = responses[5])
    /\ (pc = "done" /\ exit = "final" /\ prev # << >>)
          => ((prev[1].exit = "final" /\ prev[1].task = task)
                 => (context = prev[1].context /\ result = prev[1].result))

C5_Witness ==
    /\ pc = "done" /\ exit = "final" /\ prev # << >>
    /\ prev[1].exit = "final" /\ prev[1].task = task
    /\ responses = << <<"R1">>, << >>, << >>, <<"R1">>, <<"R1">> >>

\* C6: in every state of a run the transcript holds as many turns as steps
\* 1..4 have completed successfully: k turns after step k, and still 4 when
\* step 5 has returned the answer.
C6_TranscriptGrowth ==
    /\ Len(context) = (IF Len(responses) <= 4 THEN Len(responses) ELSE 4)
    /\ pc \in {"loop", "call"} => (step \in 1..5 /\ Len(context) = step - 1)
    /\ (pc = "done" /\ exit = "final") => (Len(responses) = 5 /\ Len(context) = 4)

C6_Witness ==
    pc = "done" /\ exit = "final" /\ Len(responses) = 5 /\ Len(context) = 4

\* C7 as stated: two solve calls in succession, with the same task and timeout
\* and a deterministic completion service, return identical results.
C7_Original ==
    (pc = "done" /\ prev # << >>)
    => ((prev[1].task = task /\ prev[1].timeout = timeout)
           => result = prev[1].result)

\* C7 as amended: every solve call starts from an empty transcript whatever
\* the outcome of the call before it; every turn of the transcript, and so
\* every turn a call replays to the service, was produced by a response of the
\* current run; and two calls in succession with the same task and a
\* deterministic completion service return identical results provided the
\* timeout check fires in both runs or in neither.
C7_IdempotentReuse ==
    /\ [][runs' # runs => (context' = << >> /\ pc' = "loop" /\ step' = 1)]_vars
    /\ [](\A i \in 1..Len(context) :
             i <= Len(responses) /\ context[i] = ExpectedTurn(i))
    /\ [](pc = "call" =>
             /\ Len(messages) <= Len(context) + 2
             /\ \A j \in 2..(Len(messages) - 1) :
                    messages[j].content = context[j - 1].content)
    /\ []((pc = "done" /\ prev # << >>)
            => ((prev[1].task = task
                   /\ ((prev[1].exit = "timeout") <=> (exit = "timeout")))
                  => result = prev[1].result))

C7_Witness ==
    /\ pc = "done" /\ prev # << >> /\ prev[1].task = task
    /\ prev[1].exit = "error" /\ prev[1].step = 3 /\ Len(prev[1].context) = 2
    /\ exit = "error" /\ result = prev[1].result

\* C8: within one solve call no step makes more than one completion-service
\* call, no run makes more than five, and a run that ends without a timeout and
\* without an error has made exactly five.
C8_AtMostOneCallPerStep ==
    /\ \A k \in 1..5 : Cardinality({i \in 1..Len(calls) : calls[i].step = k}) <= 1
    /\ Len(calls) <= 5
    /\ (pc = "done" /\ exit \notin {"timeout", "error"}) => Len(calls) = 5

C8_Witness ==
    /\ pc = "done" /\ exit = "final" /\ Len(calls) = 5
    /\ prev # << >> /\ prev[1].exit = "timeout"

\* C9: once a step's call is in flight the step runs to its success (its turn
\* appended or the answer returned) or its failure (the error string), also
\* when elapsed time has passed the timeout meanwhile; the timeout string is
\* returned only from the check before a step, with elapsed time over the
\* timeout there.
C9_NoInterruption ==
    /\ [][(pc = "call" /\ pc' # "call")
            => \/ /\ pc' = "loop"
                  /\ Len(responses') = Len(responses) + 1
                  /\ Len(context') = Len(context) + 1
               \/ /\ pc' = "done"
                  /\ exit' = "final"
                  /\ Len(responses') = Len(responses) + 1
               \/ /\ pc' = "done"
                  /\ exit' = "error"
                  /\ responses' = responses]_vars
    /\ [][(pc' = "done" /\ exit' = "timeout" /\ pc # "done")
            => (pc = "loop" /\ now - start_time > timeout)]_vars

C9_Witness ==
    /\ pc = "done" /\ exit = "error" /\ step = 2
    /\ now - start_time > timeout

\* C10: a failure at step i (i in 1..5) ends the run with exactly
\* "Error during collaboration: " followed by the failure's message; the result
\* contains the text of no turn of the transcript; the failing step was called
\* once and its call is the last call of the run.
C10_ErrorDiscardsTranscript ==
    (pc = "done" /\ ~AllCallsSucceeded)
    => (/\ exit = "error"
        /\ step \in 1..5
        /\ ~LastOutcome.ok
        /\ result = <<"Error during collaboration:", " ">> \o LastOutcome.text
        /\ \A i \in 1..Len(context) : ~Contains(result, context[i].content)
        /\ Len(context) = step - 1
        /\ Len(calls) = step
        /\ calls[step].step = step
        /\ Cardinality({i \in 1..Len(calls) : calls[i].step = step}) = 1)

C10_Witness ==
    /\ pc = "done" /\ exit = "error" /\ step = 4 /\ Len(context) = 3
    /\ context[3].content = <<"History Agent: ", "R1">>

\* p is a prefix of s
IsPrefix(p, s) == Len(p) <= Len(s) /\ SubSeq(s, 1, Len(p)) = p

\* C11: during a run the transcript before a step is a prefix of the
\* transcript after it, and a step adds at most one turn: no turn is removed,
\* reordered or changed.
C11_AppendOnly ==
    [][runs' = runs => (/\ IsPrefix(context, context')
                        /\ Len(context') <= Len(context) + 1)]_vars

C11_Witness ==
    /\ pc = "loop" /\ step = 4
    /\ context = << [role |-> "ai", content |-> <<"History Agent: ", "R1">>],
                    [role |-> "ai", content |-> <<"Data Agent: ">>],
                    [role |-> "ai", content |-> <<"History Agent: ">>] >>

(* ---------------------------- Agent.process alone ---------------------- *)

\* turns a transcript may hold: either speaker, two texts
Turns ==
    {[role |-> r, content |-> c] :
        r \in {"human", "ai"}, c \in {<<"History Agent: ", "R1">>, <<"Q">>}}

\* the transcripts given to process
Transcripts == UNION {[1..n -> Turns] : n \in 0..MaxTurns}

\* an orchestrator is constructed; a task and a transcript are at hand
ProcessInit ==
    /\ history_agent = NewHistoryAgent
    /\ data_agent = NewDataAgent
    /\ llm = {}
    /\ now = 0
    /\ pc = "idle"
    /\ task \in Tasks
    /\ timeout = 0
    /\ start_time = 0
    /\ context \in Transcripts
    /\ step = 1
    /\ messages = << >>
    /\ result = << >>
    /\ exit = "none"
    /\ runs = 0
    /\ calls = << >>
    /\ responses = << >>
    /\ prev = << >>

\* agent.process(task, context) up to llm.invoke
Process(a) ==
    /\ pc = "idle"
    /\ messages' = ProcessMessages(Agent(a), task, context)
    /\ context' = ProcessLeaves(context, task)
    /\ history_agent' = IF a = "history_agent" THEN ProcessSelf(history_agent)
                        ELSE history_agent
    /\ data_agent' = IF a = "data_agent" THEN ProcessSelf(data_agent)
                     ELSE data_agent
    /\ calls' = Append(calls, [step |-> step, agent |-> a])
    /\ pc' = "call"
    /\ UNCHANGED <<llm, now, task, timeout, start_time, step, result, exit, runs,
                   responses, prev>>

\* llm.invoke returns and process returns response.content
ProcessReturns(o) ==
    /\ pc = "call"
    /\ o.ok
    /\ Allowed(o)
    /\ llm' = Answered(o)
    /\ responses' = Append(responses, o.text)
    /\ Return("returned", ProcessResult(o.text))
    /\ UNCHANGED <<history_agent, data_agent, now, task, timeout, start_time,
                   context, step, messages, runs, calls, prev>>

\* llm.invoke raises and the exception leaves process
ProcessRaises(o) ==
    /\ pc = "call"
    /\ ~o.ok
    /\ Allowed(o)
    /\ llm' = Answered(o)
    /\ Return("raised", o.text)
    /\ UNCHANGED <<history_agent, data_agent, now, task, timeout, start_time,
                   context, step, messages, runs, calls, responses, prev>>

ProcessNext ==
    \/ \E a \in {"history_agent", "data_agent"} : Process(a)
    \/ \E o \in Outcomes : ProcessReturns(o)
    \/ \E o \in Outcomes : ProcessRaises(o)

SpecProcess == ProcessInit /\ [][ProcessNext]_vars

\* the system instruction of each agent, as the service must receive it
ExpectedSystem(a) ==
    IF a = "history_agent"
       THEN <<"You are ", "Clio", ", a ", "History Research Specialist",
              ". Your skills include: ", "deep knowledge of historical events",
              ", ", "understanding of historical contexts", ", ",
              "identifying historical trends",
              ". Respond to the task based on your role and skills.">>
       ELSE <<"You are ", "Data", ", a ", "Data Analysis Expert",
              ". Your skills include: ", "interpreting numerical data", ", ",
              "statistical analysis", ", ", "data visualization description",
              ". Respond to the task based on your role and skills.">>

\* C12: process called with a transcript of n turns sends n+2 messages: the
\* system instruction, then every turn in transcript order with a human turn as
\* a human message and an agent turn as an agent message, then the task as the
\* last human message; and it returns the service's text unchanged.
C12_ProcessMessages ==
    /\ pc \in {"call", "done"} =>
          /\ Len(messages) = Len(context) + 2
          /\ messages[1] = [role |-> "system",
                            content |-> ExpectedSystem(calls[1].agent)]
          /\ \A j \in 1..Len(context) :
                 /\ messages[j + 1].content = context[j].content
                 /\ context[j].role = "human" => messages[j + 1].role = "human"
                 /\ context[j].role = "ai" => messages[j + 1].role = "ai"
          /\ messages[Len(messages)] = [role |-> "human", content |-> task]
    /\ (pc = "done" /\ exit = "returned") => result = responses[1]
    /\ (pc = "done" /\ AllCallsSucceeded) => exit = "returned"

C12_Witness ==
    /\ pc = "done" /\ exit = "returned" /\ result = <<"R1">> /\ task = <<"Q">>
    /\ context = << [role |-> "human", content |-> <<"Q">>],
                    [role |-> "ai", content |-> <<"History Agent: ", "R1">>] >>

(* ---------------------------- order of the calls ----------------------- *)

\* C13: within one run the completion-service calls are made in the fixed step
\* order 1, 2, 3, 4, 5 with the history agent asked at steps 1, 3, 5 and the
\* data agent at steps 2, 4, each under its own system instruction; a step's
\* call is made only when every earlier call of the run has returned.
C13_StepOrder ==
    /\ Len(calls) <= 5
    /\ \A k \in 1..Len(calls) :
           /\ calls[k].step = k
           /\ calls[k].agent = (IF k \in {1, 3, 5} THEN "history_agent"
                                ELSE "data_agent")
    /\ pc = "call" =>
           /\ Len(calls) = step
           /\ Len(responses) = step - 1
           /\ messages[1] = [role |-> "system",
                             content |-> ExpectedSystem(calls[step].agent)]
    /\ pc = "loop" => (Len(calls) = step - 1 /\ Len(responses) = step - 1)

C13_Witness ==
    /\ pc = "call" /\ step = 5 /\ Len(responses) = 4
    /\ calls[4] = [step |-> 4, agent |-> "data_agent"]
    /\ calls[5] = [step |-> 5, agent |-> "history_agent"]

(* ---------------------------- what each call carries ------------------- *)

\* C14: step 1's call carries only the system instruction and the task prompt;
\* for k in 2..5 step k's call carries, between those two, the transcript so
\* far, which is exactly the k-1 turns of steps 1..k-1 in order, each as an
\* agent message; step 5 carries all four turns.
C14_CallCarriesTranscript ==
    pc = "call" =>
        /\ Len(messages) = step + 1
        /\ messages[1].role = "system"
        /\ messages[step + 1].role = "human"
        /\ Len(context) = step - 1
        /\ \A j \in 1..(step - 1) :
               /\ context[j] = ExpectedTurn(j)
               /\ messages[j + 1] = ExpectedTurn(j)

C14_Witness ==
    /\ pc = "call" /\ step = 5 /\ Len(messages) = 6
    /\ messages[2].content = <<"History Agent: ", "R1">>
    /\ messages[3].content = <<"Data Agent: ">>
    /\ messages[5].content = <<"Data Agent: ", "R1">>

\* the prompt of the call in flight: its final human-role message
Prompt == messages[Len(messages)]

\* C15 as stated: for every k in 2..5 the final human-role message of step k's
\* call embeds the text of the last turn of the transcript at that moment, and
\* step 1's prompt embeds the task.
C15_Original ==
    pc = "call" =>
        /\ Prompt.role = "human"
        /\ step = 1 => Contains(Prompt.content, task)
        /\ step \in 2..5 => Contains(Prompt.content, Last(context).content)

\* C15: step 1's prompt is its instruction followed by the task; for k in 2..4
\* the prompt of step k is its instruction followed by the text of the last
\* turn of the transcript (the turn of step k-1); step 5's prompt is one fixed
\* sentence that embeds neither the task nor any turn.
C15_PromptDerivation ==
    pc = "call" =>
        /\ Prompt.role = "human"
        /\ step = 1 =>
               (/\ Contains(Prompt.content, task)
                /\ Prompt.content = <<Prompt.content[1]>> \o task)
        /\ step \in 2..4 =>
               (/\ Contains(Prompt.content, Last(context).content)
                /\ Prompt.content = <<Prompt.content[1]>> \o ExpectedTurn(step - 1).content)
        /\ step = 5 =>
               (/\ Prompt.content = <<"Based on all the historical context, data, and analysis, provide a comprehensive answer to the original task.">>
                /\ ~Contains(Prompt.content, Last(context).content))

C15_Witness ==
    /\ pc = "call" /\ step = 4 /\ task = <<"Q">>
    /\ Prompt.content[2] = "History Agent: "
    /\ Prompt.content[3] = "R1"

(* ---------------------------- blocking and termination ----------------- *)

\* the call in flight completes: llm.invoke returns or raises
Completion == \E o \in Outcomes : CallReturns(o) \/ CallFails(o)

\* solve keeps running between calls, and every started call eventually
\* returns or raises
FairSpec ==
    /\ Spec
    /\ WF_vars(StartStep \/ TimeoutReturn)
    /\ WF_vars(Completion)

\* C16: while a call is in flight and has not completed, solve stays in that
\* call whatever time passes and whatever the timeout: no result is returned,
\* the timeout string included. When every started call eventually returns or
\* raises, every run of solve eventually returns, after at most five calls.
C16_BlockingCall ==
    /\ [][(pc = "call" /\ ~Completion)
              => (pc' = "call" /\ exit' = "none" /\ result' = result
                  /\ calls' = calls)]_vars
    /\ [](Len(calls) <= 5)
    /\ (pc \in {"loop", "call"}) ~> (pc = "done")

C16_Witness ==
    /\ pc = "call" /\ step = 1 /\ exit = "none"
    /\ timeout = 0 /\ Elapsed = MaxTime

(* ---------------------------- the timeout comparison ------------------- *)

\* C17: the timeout comparison is strict. At the top of the loop with the
\* elapsed time equal to the timeout, the step is executed (its call is made)
\* unless more time passes first; a run that returned the timeout string had
\* measured an elapsed time greater than the timeout. With timeout 0 and
\* elapsed time 0 at the first test, step 1's call is made.
C17_StrictComparison ==
    /\ [][(pc = "loop" /\ Elapsed = timeout /\ now' = now)
              => (/\ pc' = "call"
                  /\ exit' = "none"
                  /\ calls' = Append(calls, [step |-> step,
                                             agent |-> steps[step].agent]))]_vars
    /\ []((pc = "done" /\ exit = "timeout") => Elapsed > timeout)

C17_Witness ==
    /\ pc = "call" /\ step = 1 /\ Len(calls) = 1
    /\ timeout = 0 /\ now = start_time /\ task = << >>

(* ---------------------------- after the last step ---------------------- *)

\* C18: no timeout test follows the last step. A run whose five calls all
\* succeeded returns step 5's text, also when the elapsed time exceeds the
\* timeout by then (it can only have passed it during step 5's call); the
\* timeout string is returned only by runs that made fewer than five calls.
C18_NoCheckAfterLastStep ==
    /\ (pc = "done" /\ Len(responses) = 5) =>
           (exit = "final" /\ result = responses[5])
    /\ (pc = "call" /\ step = 5) => exit = "none"
    /\ exit = "timeout" => (pc = "done" /\ result = TimeoutMessage /\ Len(calls) < 5)

C18_Witness ==
    /\ pc = "done" /\ exit = "final" /\ Len(responses) = 5
    /\ Elapsed > timeout /\ result = <<"R1">> /\ runs = 1

(* ---------------------------- the exits of solve ----------------------- *)

\* C19: every run of solve leaves through exactly one of three exits: the
\* timeout return before a step, the error return of a failed step, or the
\* return of step 5's text. The fallback after the loop is never reached, no
\* exception leaves solve, and whenever a step that reads the last turn is
\* about to run or running (steps 2..4) the transcript is not empty.
C19_ThreeExits ==
    /\ exit \in {"none", "timeout", "error", "final"}
    /\ pc = "done" <=> exit # "none"
    /\ step \in 1..NumSteps
    /\ exit = "timeout" => (AllCallsSucceeded /\ Len(calls) = step - 1 /\ step <= NumSteps)
    /\ exit = "error" => (Len(calls) = step /\ Len(responses) = step - 1)
    /\ exit = "final" => (step = NumSteps /\ Len(responses) = NumSteps)
    /\ (pc \in {"loop", "call"} /\ ReadsLast(steps[step].func)) => context # << >>
    /\ (pc \in {"loop", "call"} /\ step \in 2..4) => ReadsLast(steps[step].func)

C19_Witness ==
    /\ pc = "done" /\ exit = "timeout" /\ step = 3 /\ Len(context) = 2
    /\ prev # << >> /\ prev[1].exit = "error"

(* ---------------------------- frame of an invocation ------------------- *)

\* C20: an agent invocation leaves the transcript it was given and the two
\* agents' descriptors (name, role, skills) unchanged. Within a run the
\* transcript changes only when a step's call has returned text, by that
\* step's one appended turn; when a step's call fails, the transcript at the
\* return of solve is what it was before that step started.
C20_Frame ==
    /\ [][/\ history_agent' = history_agent
          /\ data_agent' = data_agent
          /\ (pc = "loop" /\ pc' = "call") => context' = context
          /\ (pc = "call" /\ exit' = "error") => context' = context
          /\ (context' # context /\ runs' = runs) =>
                 (/\ pc = "call"
                  /\ Len(responses') = Len(responses) + 1
                  /\ context' = Append(context,
                         [role |-> "ai",
                          content |-> Speaker(steps[step].func)
                                          \o responses'[Len(responses')]]))]_vars
    /\ [](history_agent = NewHistoryAgent /\ data_agent = NewDataAgent)
    /\ [](exit = "error" =>
             (/\ Len(context) = step - 1
              /\ \A j \in 1..Len(context) : context[j] = ExpectedTurn(j)))

C20_Witness ==
    /\ pc = "done" /\ exit = "error" /\ step = 4 /\ Len(calls) = 4
    /\ Len(context) = 3
    /\ context[3].content = <<"History Agent: ", "R1">>

====
